---- MODULE Spec2Model ----
(***************************************************************************)
(* Model of CL_Minesweeper: play.py (the driver), and the classes Cell,    *)
(* Grid and Minesweeper of minesweeper.py.                                 *)
(*                                                                         *)
(* A coordinate is the pair <<row, column>>.  A cell is the record         *)
(* [has_mine, surrounding_mines_count, is_open]; the string 'X' that       *)
(* _has_guessed_mine stores in place of a guessed mine is XCell.           *)
(***************************************************************************)
EXTENDS Integers, FiniteSets, Sequences, TLC

Max(a, b) == IF a >= b THEN a ELSE b
Min(a, b) == IF a <= b THEN a ELSE b

\* Largest width, height and number of cells (width * height) the user asks
\* for in the explored runs.
MaxWidth == 10
MaxHeight == 3
MaxCells == 20

\* Largest number of cells of a grid whose game the explored runs play;
\* larger grids are constructed and left at that.
MaxPlayCells == 6

\* Largest number of guesses made on the 3x3 grid in the explored runs of
\* SpecThree.
MaxThreeGuesses == 3

\* What the user may type at the prompts of play.py.
DimensionInputs ==
    {d \in (0..MaxWidth) \X (0..MaxHeight) : d[1] * d[2] <= MaxCells}
DifficultyInputs == 0..4

\* What the user may type at a coordinate prompt: a number, or text that
\* int() rejects with ValueError.
Number(n) == [is_number |-> TRUE, value |-> n]
NotANumber == [is_number |-> FALSE, value |-> 0]
CoordinateInputs ==
    {Number(n) : n \in (-1)..(MaxPlayCells \div 2)} \cup {NotANumber}

\* Python's None (a hint that found nothing).
None == <<>>

\* Grid.mine_count before any branch of Grid.__init__ has assigned it.
Unset == -1

\* The 'X' stored in Grid.cells by Minesweeper._has_guessed_mine.
XCell == [marker |-> "X"]

VARIABLES
    pc,             \* where the program waits for input, or how it ended
    width,          \* Grid.width
    height,         \* Grid.height
    difficulty,     \* Grid.difficulty
    mine_count,     \* Grid.mine_count
    cells,          \* Grid.cells, a function of the coordinate
    hinted_cells,   \* Grid.hinted_cells
    column_index,   \* the column accepted by _get_user_guess, while the row is asked
    outcome,        \* what the last step printed or returned
    hint_log        \* history: the coordinates request_hint has printed, in order

vars == <<pc, width, height, difficulty, mine_count, cells, hinted_cells,
          column_index, outcome, hint_log>>

----------------------------------------------------------------------------
(* Cell *)

Cell(has_mine, surrounding_mines_count, is_open) ==
    [has_mine |-> has_mine,
     surrounding_mines_count |-> surrounding_mines_count,
     is_open |-> is_open]

IsXCell(cell) == "marker" \in DOMAIN cell

open(cell) == [cell EXCEPT !.is_open = TRUE]

\* unopened_non_mine without the mine test.
unopened_any(cell) == cell.is_open = FALSE

unopened_non_mine(cell) == cell.is_open = FALSE /\ cell.has_mine = FALSE

----------------------------------------------------------------------------
(* Grid: construction *)

\* range(height) x range(width); empty when either is not positive.
generate_grid_coordinate_positions(w, h) == (0..(h - 1)) \X (0..(w - 1))

create_empty_cells(w, h) ==
    [p \in generate_grid_coordinate_positions(w, h) |-> Cell(FALSE, 0, FALSE)]

\* mine_count_for with the branch of difficulty 2 copied to difficulty 1.
mine_count_for_copied_branch(total_cells, d) ==
    CASE d = 1 -> Max(2, (total_cells * 15) \div 100)
      [] d = 2 -> Max(2, (total_cells * 15) \div 100)
      [] d = 3 -> Max(3, (total_cells * 20) \div 100)
      [] OTHER -> Unset

\* mine_count_for with min for max.
mine_count_for_min(total_cells, d) ==
    CASE d = 1 -> Min(1, (total_cells * 10) \div 100)
      [] d = 2 -> Min(2, (total_cells * 15) \div 100)
      [] d = 3 -> Min(3, (total_cells * 20) \div 100)
      [] OTHER -> Unset

\* int(total_cells * 0.10), int(total_cells * 0.15), int(total_cells * 0.20):
\* the double product truncated.  For every total_cells below 2000 the
\* truncated double equals the exact quotient below (checked by evaluating
\* the Python expressions), so the integer quotient is what the code yields.
\* No branch assigns mine_count for any other difficulty.
mine_count_for(total_cells, d) ==
    CASE d = 1 -> Max(1, (total_cells * 10) \div 100)
      [] d = 2 -> Max(2, (total_cells * 15) \div 100)
      [] d = 3 -> Max(3, (total_cells * 20) \div 100)
      [] OTHER -> Unset

\* The subsets of S that have k elements.
RECURSIVE KSubsets(_, _)
KSubsets(S, k) ==
    IF k = 0 THEN {{}}
    ELSE IF Cardinality(S) < k THEN {}
    ELSE LET x == CHOOSE y \in S : TRUE
         IN  KSubsets(S \ {x}, k) \cup {T \cup {x} : T \in KSubsets(S \ {x}, k - 1)}

\* random.sample(coordinate_positions, mine_count): every subset of that size.
generate_mine_positions(coordinate_positions, count) ==
    KSubsets(coordinate_positions, count)

place_mines(cs, mine_positions) ==
    [p \in DOMAIN cs |->
        IF p \in mine_positions THEN [cs[p] EXCEPT !.has_mine = TRUE] ELSE cs[p]]

identify_non_mine_positions(coordinate_positions, mine_positions) ==
    coordinate_positions \ mine_positions

is_valid_position(w, h, row_index, column_index_) ==
    /\ 0 <= row_index /\ row_index < h
    /\ 0 <= column_index_ /\ column_index_ < w

\* surrounding_count with both ranges ending one short: range(i - 1, i + 1).
surrounding_count_short(cs, w, h, p) ==
    Cardinality({q \in ((p[1] - 1)..p[1]) \X ((p[2] - 1)..p[2]) :
                    is_valid_position(w, h, q[1], q[2]) /\ cs[q].has_mine})

surrounding_count(cs, w, h, p) ==
    Cardinality({q \in ((p[1] - 1)..(p[1] + 1)) \X ((p[2] - 1)..(p[2] + 1)) :
                    is_valid_position(w, h, q[1], q[2]) /\ cs[q].has_mine})

set_surrounding_mine_count(cs, w, h, non_mine_positions) ==
    [p \in DOMAIN cs |->
        IF p \in non_mine_positions
        THEN [cs[p] EXCEPT !.surrounding_mines_count = surrounding_count(cs, w, h, p)]
        ELSE cs[p]]

\* Grid._set_cell_mines_and_surrounding_counts, for the sample drawn.
set_cell_mines_and_surrounding_counts(w, h, mine_positions) ==
    LET coordinate_positions == generate_grid_coordinate_positions(w, h)
        placed == place_mines(create_empty_cells(w, h), mine_positions)
    IN  set_surrounding_mine_count(placed, w, h,
            identify_non_mine_positions(coordinate_positions, mine_positions))

has_unopened_non_mines(cs) ==
    \E p \in DOMAIN cs : unopened_non_mine(cs[p])

\* is_cell_open reading the wrong attribute of the cell.
is_cell_open_reads_has_mine(cs, row_index, column_index_) ==
    cs[<<row_index, column_index_>>].has_mine

is_cell_open(cs, row_index, column_index_) == cs[<<row_index, column_index_>>].is_open

\* has_mine that reads the opened flag.
has_mine_reads_is_open(cs, coordinate) == cs[coordinate].is_open

has_mine(cs, coordinate) == cs[coordinate].has_mine

----------------------------------------------------------------------------
(* Grid: hint search *)

\* The coordinates of S as a sequence in row-major order.
RECURSIVE RowMajor(_)
RowMajor(S) ==
    IF S = {} THEN <<>>
    ELSE LET first == CHOOSE p \in S :
                        \A q \in S : p[1] < q[1] \/ (p[1] = q[1] /\ p[2] <= q[2])
         IN  <<first>> \o RowMajor(S \ {first})

\* get_neighbours with the loops nested the other way: columns, then rows.
get_neighbours_column_first(w, h, row, col) ==
    LET first_row == Max(0, row - 1)
        first_col == Max(0, col - 1)
        rows == Min(h, row + 2) - first_row
        cols == Min(w, col + 2) - first_col
    IN  SelectSeq([i \in 1..(rows * cols) |->
                      <<first_row + ((i - 1) % rows), first_col + ((i - 1) \div rows)>>],
                  LAMBDA q : q # <<row, col>>)

\* The double loop of lines 226-229: rows, then columns, the cell left out.
get_neighbours(w, h, row, col) ==
    LET first_row == Max(0, row - 1)
        first_col == Max(0, col - 1)
        rows == Min(h, row + 2) - first_row
        cols == Min(w, col + 2) - first_col
    IN  SelectSeq([i \in 1..(rows * cols) |->
                      <<first_row + ((i - 1) \div cols), first_col + ((i - 1) % cols)>>],
                  LAMBDA q : q # <<row, col>>)

\* unhinted_unopened_non_mine without the is_open test.
unhinted_non_mine(cs, hinted, p) ==
    p \notin hinted /\ ~cs[p].has_mine

\* The test of lines 186-187 and 205-206.
unhinted_unopened_non_mine(cs, hinted, p) ==
    p \notin hinted /\ ~cs[p].is_open /\ ~cs[p].has_mine

\* is_completely_safe accepting one surrounding mine.
is_completely_safe_lenient(cs, p) == cs[p].surrounding_mines_count <= 1

\* The test of line 207.
is_completely_safe(cs, p) == cs[p].surrounding_mines_count = 0

\* Returns [result, visited]: visited is the set the Python code mutates.
RECURSIVE recursive_backtrack_search(_, _, _, _, _, _)
RECURSIVE search_neighbours(_, _, _, _, _, _, _)
RECURSIVE search_neighbours_skips_opened(_, _, _, _, _, _, _)
recursive_backtrack_search(cs, hinted, w, h, p, visited) ==
    LET marked == visited \cup {p}
    IN  IF unhinted_unopened_non_mine(cs, hinted, p)
           /\ is_completely_safe(cs, p)
        THEN [result |-> p, visited |-> marked]
        ELSE search_neighbours(cs, hinted, w, h,
                               get_neighbours(w, h, p[1], p[2]), 1, marked)

\* search_neighbours that does not walk into opened cells or mines.
search_neighbours_skips_opened(cs, hinted, w, h, neighbours, i, visited) ==
    IF i > Len(neighbours) THEN [result |-> None, visited |-> visited]
    ELSE IF \/ neighbours[i] \in visited
            \/ cs[neighbours[i]].is_open
            \/ cs[neighbours[i]].has_mine
         THEN search_neighbours_skips_opened(cs, hinted, w, h, neighbours,
                                             i + 1, visited)
         ELSE LET found == recursive_backtrack_search(cs, hinted, w, h,
                                                      neighbours[i], visited)
              IN  IF found.result # None THEN found
                  ELSE search_neighbours_skips_opened(cs, hinted, w, h,
                                                      neighbours, i + 1,
                                                      found.visited)

\* The for loop of lines 211-215, from the i-th neighbour on.
search_neighbours(cs, hinted, w, h, neighbours, i, visited) ==
    IF i > Len(neighbours) THEN [result |-> None, visited |-> visited]
    ELSE IF neighbours[i] \in visited
         THEN search_neighbours(cs, hinted, w, h, neighbours, i + 1, visited)
         ELSE LET found == recursive_backtrack_search(cs, hinted, w, h,
                                                      neighbours[i], visited)
              IN  IF found.result # None THEN found
                  ELSE search_neighbours(cs, hinted, w, h, neighbours, i + 1,
                                         found.visited)

\* The double loop of Grid.hint from the k-th coordinate of the row-major scan.
RECURSIVE hint_scan(_, _, _, _, _, _)
hint_scan(cs, hinted, w, h, positions, k) ==
    IF k > Len(positions) THEN None
    ELSE IF unhinted_unopened_non_mine(cs, hinted, positions[k])
         THEN LET found == recursive_backtrack_search(cs, hinted, w, h,
                                                      positions[k], {})
              IN  IF found.result # None THEN found.result
                  ELSE hint_scan(cs, hinted, w, h, positions, k + 1)
         ELSE hint_scan(cs, hinted, w, h, positions, k + 1)

\* hint with the row loop ending one row short: range(self.height - 1).
hint_skips_last_row(cs, hinted, w, h) ==
    hint_scan(cs, hinted, w, h,
              RowMajor(generate_grid_coordinate_positions(w, h - 1)), 1)

\* The value Grid.hint returns, before line 191 records it.
hint(cs, hinted, w, h) ==
    hint_scan(cs, hinted, w, h,
              RowMajor(generate_grid_coordinate_positions(w, h)), 1)

\* hinted_after keeping only the last result.
hinted_after_keeps_last(hinted, result) ==
    IF result # None THEN {result} ELSE hinted

\* hinted_after adding the result before testing it.
hinted_after_adds_none(hinted, result) == hinted \cup {result}

\* hinted_after without the add of line 191.
hinted_after_forgets(hinted, result) == hinted

\* Lines 190-191: hinted_cells once the search has returned result.
hinted_after(hinted, result) ==
    IF result # None THEN hinted \cup {result} ELSE hinted

----------------------------------------------------------------------------
(* What a step reports: the message printed or the value returned. *)

Report(kind, value) == [kind |-> kind, value |-> value]

\* No Grid object: the state before construction, and after a constructor
\* that raised.
NoGrid ==
    /\ mine_count = Unset
    /\ cells = <<>>
    /\ hinted_cells = {}

Init ==
    /\ pc = "dimensions"
    /\ width = 0
    /\ height = 0
    /\ difficulty = 0
    /\ column_index = 0
    /\ outcome = Report("start", None)
    /\ hint_log = <<>>
    /\ NoGrid

\* A caller of the classes about to construct a Minesweeper directly.
InitNew ==
    /\ pc = "new"
    /\ width = 0
    /\ height = 0
    /\ difficulty = 0
    /\ column_index = 0
    /\ outcome = Report("start", None)
    /\ hint_log = <<>>
    /\ NoGrid

----------------------------------------------------------------------------
(* play.py *)

\* Lines 7-13: the width and height prompts, repeated until both exceed 1.
EnterDimensions(w, h) ==
    /\ pc = "dimensions"
    /\ IF w > 1 /\ h > 1
       THEN /\ pc' = "difficulty"
            /\ width' = w
            /\ height' = h
            /\ outcome' = Report("dimensions", None)
       ELSE /\ outcome' = Report("at_least_2x2", None)
            /\ UNCHANGED <<pc, width, height>>
    /\ UNCHANGED <<difficulty, mine_count, cells, hinted_cells, column_index,
                   hint_log>>

\* Minesweeper.__init__ and Grid.__init__.  random.sample raises ValueError
\* when asked for more positions than there are; reading mine_count raises
\* AttributeError when no branch assigned it.
NewMinesweeper(w, h, d) ==
    LET total_cells == w * h
        count == mine_count_for(total_cells, d)
        coordinate_positions == generate_grid_coordinate_positions(w, h)
    IN  /\ width' = w
        /\ height' = h
        /\ difficulty' = d
        /\ UNCHANGED <<column_index, hint_log>>
        /\ IF count = Unset
           THEN /\ pc' = "crashed"
                /\ outcome' = Report("AttributeError", None)
                /\ UNCHANGED <<mine_count, cells, hinted_cells>>
           ELSE IF count > Cardinality(coordinate_positions)
           THEN /\ pc' = "crashed"
                /\ outcome' = Report("ValueError", None)
                /\ UNCHANGED <<mine_count, cells, hinted_cells>>
           ELSE \E mine_positions \in
                        generate_mine_positions(coordinate_positions, count) :
                    /\ pc' = "constructed"
                    /\ mine_count' = count
                    /\ cells' = set_cell_mines_and_surrounding_counts(
                                    w, h, mine_positions)
                    /\ hinted_cells' = {}
                    /\ outcome' = Report("constructed", None)

\* Lines 14-15: the difficulty prompt and the constructor call.
EnterDifficulty(d) ==
    /\ pc = "difficulty"
    /\ NewMinesweeper(width, height, d)

\* The constructor called with arbitrary arguments.
Construct(w, h, d) ==
    /\ pc = "new"
    /\ NewMinesweeper(w, h, d)

----------------------------------------------------------------------------
(* Minesweeper *)

\* loop_head of a loop that never ends: while True.
loop_head_never_ends(cs) == "menu"

\* The while condition of play (line 309) and its else branch (325-327).
loop_head(cs) == IF has_unopened_non_mines(cs) THEN "menu" ELSE "won"

\* Line 16 of play.py: game.play() reaches its first prompt, or wins at once.
BeginPlay ==
    /\ pc = "constructed"
    /\ pc' = loop_head(cells)
    /\ outcome' = Report("play_started", None)
    /\ UNCHANGED <<width, height, difficulty, mine_count, cells, hinted_cells,
                   column_index, hint_log>>

\* BeginPlay for the grids whose game the explored runs of Spec play.
StartPlay ==
    /\ width * height <= MaxPlayCells
    /\ BeginPlay

\* Lines 310-312: 'play' prints the grid and asks for the guess.
ChoosePlay ==
    /\ pc = "menu"
    /\ pc' = "column"
    /\ outcome' = Report("grid_printed", None)
    /\ UNCHANGED <<width, height, difficulty, mine_count, cells, hinted_cells,
                   column_index, hint_log>>

\* Lines 323-324: any other text.
InvalidOption ==
    /\ pc = "menu"
    /\ pc' = loop_head(cells)
    /\ outcome' = Report("invalid_option", None)
    /\ UNCHANGED <<width, height, difficulty, mine_count, cells, hinted_cells,
                   column_index, hint_log>>

\* Lines 321-322 and request_hint: one call of Grid.hint.
RequestHint ==
    /\ pc = "menu"
    /\ LET result == hint(cells, hinted_cells, width, height)
       IN  /\ hinted_cells' = hinted_after(hinted_cells, result)
           /\ outcome' = Report(IF result # None THEN "hint" ELSE "no_hint", result)
           /\ hint_log' = IF result # None THEN Append(hint_log, result)
                                            ELSE hint_log
    /\ pc' = loop_head(cells)
    /\ UNCHANGED <<width, height, difficulty, mine_count, cells, column_index>>

\* One pass of the loop of _get_valid_coordinate: "accepted", or the message.
get_valid_coordinate(input, max_index) ==
    IF ~input.is_number THEN "invalid_number"
    ELSE IF 0 <= input.value /\ input.value <= max_index THEN "accepted"
    ELSE "out_of_range"

\* Line 273: the column prompt, bounded by width - 1.
EnterColumn(input) ==
    /\ pc = "column"
    /\ LET max_row_index == width - 1
           answer == get_valid_coordinate(input, max_row_index)
       IN  IF answer = "accepted"
           THEN /\ column_index' = input.value
                /\ pc' = "row"
                /\ outcome' = Report("column", None)
           ELSE /\ outcome' = Report(answer, None)
                /\ UNCHANGED <<pc, column_index>>
    /\ UNCHANGED <<width, height, difficulty, mine_count, cells, hinted_cells,
                   hint_log>>

\* has_guessed_mine that never finds a mine.
has_guessed_mine_never(cs, user_coordinate_guess) ==
    [cells |-> cs, guessed |-> FALSE]

\* _has_guessed_mine: the cells after the guess, and whether it was a mine.
has_guessed_mine(cs, user_coordinate_guess) ==
    IF has_mine(cs, user_coordinate_guess)
    THEN [cells |-> [cs EXCEPT ![user_coordinate_guess] = XCell], guessed |-> TRUE]
    ELSE [cells |-> cs, guessed |-> FALSE]

\* open_guess that closes every other cell.
open_guess_closes_others(cs, guess) ==
    [p \in DOMAIN cs |->
        IF p = guess THEN open(cs[p]) ELSE [cs[p] EXCEPT !.is_open = FALSE]]

\* open_guess that also opens the neighbours of the guess.
open_guess_and_neighbours(cs, guess) ==
    [p \in DOMAIN cs |->
        IF /\ p[1] - guess[1] \in {-1, 0, 1}
           /\ p[2] - guess[2] \in {-1, 0, 1}
           /\ ~cs[p].has_mine
        THEN open(cs[p]) ELSE cs[p]]

\* Line 319: the guessed cell is opened.
open_guess(cs, guess) == [cs EXCEPT ![guess] = open(cs[guess])]

\* Lines 274-279 and 314-320: the row prompt, bounded by height - 1, then
\* the rest of the 'play' branch for an accepted guess.
EnterRow(input) ==
    /\ pc = "row"
    /\ LET max_col_index == height - 1
           answer == get_valid_coordinate(input, max_col_index)
           guess == <<input.value, column_index>>
       IN  IF answer # "accepted"
           THEN /\ outcome' = Report(answer, None)
                /\ UNCHANGED <<pc, cells>>
           ELSE IF is_cell_open(cells, input.value, column_index)
           THEN /\ outcome' = Report("already_opened", None)
                /\ pc' = "column"
                /\ UNCHANGED cells
           ELSE LET checked == has_guessed_mine(cells, guess)
                IN  IF checked.guessed
                    THEN /\ cells' = checked.cells
                         /\ pc' = "lost"
                         /\ outcome' = Report("mine", guess)
                    ELSE /\ cells' = open_guess(checked.cells, guess)
                         /\ pc' = loop_head(cells')
                         /\ outcome' = Report("opened", guess)
    /\ UNCHANGED <<width, height, difficulty, mine_count, hinted_cells,
                   column_index, hint_log>>

----------------------------------------------------------------------------
(* Specifications *)

Next ==
    \/ \E d \in DimensionInputs : EnterDimensions(d[1], d[2])
    \/ \E d \in DifficultyInputs : EnterDifficulty(d)
    \/ StartPlay
    \/ ChoosePlay
    \/ InvalidOption
    \/ RequestHint
    \/ \E input \in CoordinateInputs : EnterColumn(input)
    \/ \E input \in CoordinateInputs : EnterRow(input)

\* The program: play.py run from its first prompt.
Spec == Init /\ [][Next]_vars

\* The program run by a user who asks for the 3x3 grid, picks one of
\* ThreeDifficulties, and types only 'play' or 'hint' and coordinates of the grid.
ThreeDimensions == <<3, 3>>
ThreeDifficulties == {1}
ThreeCoordinateInputs == {Number(n) : n \in {0, 1, 2}}

\* ChoosePlay while fewer than MaxThreeGuesses cells have been opened.
ChoosePlayThree ==
    /\ ChoosePlay
    /\ Cardinality({p \in DOMAIN cells : cells[p].is_open}) < MaxThreeGuesses

NextThree ==
    \/ EnterDimensions(ThreeDimensions[1], ThreeDimensions[2])
    \/ \E d \in ThreeDifficulties : EnterDifficulty(d)
    \/ BeginPlay
    \/ ChoosePlayThree
    \/ RequestHint
    \/ \E input \in ThreeCoordinateInputs : EnterColumn(input)
    \/ \E input \in ThreeCoordinateInputs : EnterRow(input)

SpecThree == Init /\ [][NextThree]_vars

NextNew ==
    \E size \in DimensionInputs, d \in DifficultyInputs :
        Construct(size[1], size[2], d)

\* The constructor called by any caller of the classes.
SpecNew == InitNew /\ [][NextNew]_vars

----------------------------------------------------------------------------
(* Vocabulary of the properties *)

HasGrid == DOMAIN cells # {}

\* A guessed mine is the cell that holds 'X'.
Hazardous(p) == IF IsXCell(cells[p]) THEN TRUE ELSE cells[p].has_mine

Revealed(p) == IF IsXCell(cells[p]) THEN TRUE ELSE cells[p].is_open

HazardCells == {p \in DOMAIN cells : Hazardous(p)}

\* The session of the specification: in progress from construction until
\* play() leaves its loop by the break (lost) or by the else branch (won).
SessionState ==
    CASE pc \in {"constructed", "menu", "column", "row"} -> "InProgress"
      [] pc = "won" -> "Won"
      [] pc = "lost" -> "Lost"
      [] OTHER -> "NoSession"

\* Hazardous and Revealed of the cells cs.
HazardousIn(cs, p) == IF IsXCell(cs[p]) THEN TRUE ELSE cs[p].has_mine

RevealedIn(cs, p) == IF IsXCell(cs[p]) THEN TRUE ELSE cs[p].is_open

\* The adjacency count is an attribute of the cells that are not guessed mines.
CountIn(cs, p) == IF IsXCell(cs[p]) THEN 0 ELSE cs[p].surrounding_mines_count

ColumnInGrid(c) == \E p \in DOMAIN cells : p[2] = c

RowInGrid(r) == \E p \in DOMAIN cells : p[1] = r

\* The coordinate a row input completes, the column having been accepted.
GuessOf(input) == <<input.value, column_index>>

\* A row input that completes a reveal the program accepts.
AcceptedGuess(input) ==
    /\ input.is_number
    /\ GuessOf(input) \in DOMAIN cells
    /\ ~Revealed(GuessOf(input))

\* The failed reveal left the revealed flags, the hinted set and the session.
Untouched ==
    /\ cells' = cells
    /\ hinted_cells' = hinted_cells
    /\ SessionState' = SessionState

\* Unrevealed non-hazard cells without surrounding mines.
ZeroCells ==
    {p \in DOMAIN cells :
        ~Revealed(p) /\ ~Hazardous(p) /\ cells[p].surrounding_mines_count = 0}

RevealedCells == {p \in DOMAIN cells : Revealed(p)}

\* The reference search of the hint, on the current state.  A cell
\* qualifies when it is unhinted, unrevealed, non-hazardous and has no
\* surrounding mines; a seed when it is unhinted, unrevealed and non-hazardous.
Qualifies(p) == p \in ZeroCells \ hinted_cells

IsSeed(p) == p \notin hinted_cells /\ ~Revealed(p) /\ ~Hazardous(p)

\* The 3x3 neighbourhood in row-then-column order, the node itself left out.
NeighbourOffsets ==
    << <<-1, -1>>, <<-1, 0>>, <<-1, 1>>, <<0, -1>>, <<0, 1>>,
       <<1, -1>>, <<1, 0>>, <<1, 1>> >>

InGrid(q) == q[1] \in 0..(height - 1) /\ q[2] \in 0..(width - 1)

ReferenceNeighbours(p) ==
    SelectSeq([i \in 1..8 |-> <<p[1] + NeighbourOffsets[i][1],
                                p[2] + NeighbourOffsets[i][2]>>], InGrid)

\* Depth-first search in preorder with an explicit stack of cells to visit.
RECURSIVE ReferenceSearch(_, _)
ReferenceSearch(stack, visited) ==
    IF stack = <<>> THEN None
    ELSE IF Head(stack) \in visited THEN ReferenceSearch(Tail(stack), visited)
    ELSE IF Qualifies(Head(stack)) THEN Head(stack)
    ELSE ReferenceSearch(ReferenceNeighbours(Head(stack)) \o Tail(stack),
                         visited \cup {Head(stack)})

\* The k-th coordinate (from 0) of the row-major order.
RowMajorCell(k) == <<k \div width, k % width>>

\* The seeds tried in row-major order, each with a fresh visited set.
RECURSIVE ReferenceHintFrom(_)
ReferenceHintFrom(k) ==
    IF k >= width * height THEN None
    ELSE IF IsSeed(RowMajorCell(k))
            /\ ReferenceSearch(<<RowMajorCell(k)>>, {}) # None
         THEN ReferenceSearch(<<RowMajorCell(k)>>, {})
         ELSE ReferenceHintFrom(k + 1)

ReferenceHint == ReferenceHintFrom(0)

\* p and q are the same cell or neighbours.
Near(p, q) == p[1] - q[1] \in {-1, 0, 1} /\ p[2] - q[2] \in {-1, 0, 1}

ValidArguments == width >= 2 /\ height >= 2 /\ difficulty \in {1, 2, 3}

\* floor(total * percent / 100), from its defining inequalities.
FloorOfRate(total, percent) ==
    CHOOSE k \in 0..total :
        100 * k <= total * percent /\ total * percent < 100 * (k + 1)

TierRate(d) == CASE d = 1 -> 10 [] d = 2 -> 15 [] d = 3 -> 20

TierMinimum(d) == CASE d = 1 -> 1 [] d = 2 -> 2 [] d = 3 -> 3

hazard_count(w, h, d) == Max(FloorOfRate(w * h, TierRate(d)), TierMinimum(d))

\* The hazards among the up to 8 neighbours of p that lie inside the grid.
HazardNeighbours(p) ==
    {q \in DOMAIN cells :
        \E dr \in {-1, 0, 1}, dc \in {-1, 0, 1} :
            /\ <<dr, dc>> # <<0, 0>>
            /\ q = <<p[1] + dr, p[2] + dc>>
            /\ Hazardous(q)}

----------------------------------------------------------------------------
(* Properties *)

\* C1: for width >= 2, height >= 2 and difficulty 1, 2 or 3 the constructed
\* grid has width * height cells of which exactly
\* max(floor(width * height * rate), minimum) are hazardous, with
\* rate/minimum 10%/1, 15%/2, 20%/3 for difficulty 1, 2, 3.
C1_ExactHazardCount ==
    (HasGrid /\ ValidArguments) =>
        /\ DOMAIN cells = (0..(height - 1)) \X (0..(width - 1))
        /\ Cardinality(HazardCells) = hazard_count(width, height, difficulty)
        /\ mine_count = hazard_count(width, height, difficulty)

\* A grid just constructed where the rate, not the minimum, decides: 20 cells
\* at difficulty 3 hold 4 mines.
C1_Witness ==
    /\ pc = "constructed"
    /\ width * height = 20
    /\ difficulty = 3
    /\ Cardinality(HazardCells) = 4

\* C2: every non-hazard cell's surrounding_mines_count is the number of
\* hazardous cells among its up to 8 neighbours inside the grid, for every
\* layout the constructor can draw.
C2_AdjacencyCountExact ==
    HasGrid =>
        \A p \in DOMAIN cells :
            ~Hazardous(p) =>
                cells[p].surrounding_mines_count = Cardinality(HazardNeighbours(p))

\* The 3x3 grid with mines at (0,0) and (2,2): the centre counts 2.
C2_Witness ==
    /\ pc = "constructed"
    /\ width = 3
    /\ height = 3
    /\ HazardCells = {<<0, 0>>, <<2, 2>>}
    /\ cells[<<1, 1>>].surrounding_mines_count = 2

\* C3: a constructor call with width < 2, height < 2 or a difficulty other
\* than 1, 2, 3 fails and leaves no grid.
C3_InvalidArgumentsYieldNoBoard ==
    (pc # "new" /\ ~ValidArguments) => (pc = "crashed" /\ ~HasGrid)

\* C4: a reveal of a coordinate outside the grid fails as out of range, a
\* reveal of an already revealed coordinate fails as already opened, and
\* either leaves the revealed flags, the hinted set and the session state
\* as they were.
C4_RejectedRevealChangesNothing ==
    [][\A input \in CoordinateInputs :
          /\ (EnterColumn(input) /\ input.is_number /\ ~ColumnInGrid(input.value))
                => (outcome'.kind = "out_of_range" /\ Untouched)
          /\ (EnterRow(input) /\ input.is_number /\ ~RowInGrid(input.value))
                => (outcome'.kind = "out_of_range" /\ Untouched)
          /\ (EnterRow(input) /\ input.is_number /\ RowInGrid(input.value)
                /\ Revealed(GuessOf(input)))
                => (outcome'.kind = "already_opened" /\ Untouched)]_vars

\* A guess at an opened cell was just refused, with hints already given.
C4_Witness ==
    /\ outcome.kind = "already_opened"
    /\ pc = "column"
    /\ hinted_cells # {}
    /\ \E p \in DOMAIN cells : Revealed(p)

C6_LastSafeRevealWins ==
    [][\A input \in CoordinateInputs :
          (/\ EnterRow(input)
           /\ input.is_number
           /\ RowInGrid(input.value)
           /\ ~Revealed(GuessOf(input))
           /\ ~Hazardous(GuessOf(input))
           /\ \A p \in DOMAIN cells :
                 /\ Hazardous(p) => ~Revealed(p)
                 /\ (~Hazardous(p) /\ p # GuessOf(input)) => Revealed(p))
            => (SessionState' = "Won" /\ cells'[GuessOf(input)].is_open)]_vars

\* A session won on a six-cell grid after at least one hint.
C6_Witness ==
    /\ pc = "won"
    /\ width * height = 6
    /\ hint_log # <<>>
    /\ \A p \in DOMAIN cells : Hazardous(p) # Revealed(p)

\* C7: no coordinate is returned by two hint calls of one session.
C7_NoRepeatedHint ==
    \A i, j \in 1..Len(hint_log) : i # j => hint_log[i] # hint_log[j]

\* Two hints were returned, the first of them is still unrevealed, and a
\* cell was revealed meanwhile.
C7_Witness ==
    /\ Len(hint_log) >= 2
    /\ ~Revealed(hint_log[1])
    /\ \E p \in DOMAIN cells : Revealed(p)

\* C8: a coordinate returned by hint is, when returned, inside the grid,
\* unrevealed, non-hazardous and without surrounding mines.
C8_HintIsSafeZeroCell ==
    [][hint_log' # hint_log =>
          LET c == hint_log'[Len(hint_log')]
          IN  /\ outcome'.value = c
              /\ c \in DOMAIN cells
              /\ ~Revealed(c)
              /\ ~Hazardous(c)
              /\ cells[c].surrounding_mines_count = 0
              /\ cells' = cells]_vars

\* A hint was just returned on a grid that has revealed cells and unrevealed
\* non-hazard cells next to a mine.
C8_Witness ==
    /\ outcome.kind = "hint"
    /\ outcome.value \in ZeroCells
    /\ \E p \in DOMAIN cells : Revealed(p)
    /\ \E p \in DOMAIN cells :
          ~Revealed(p) /\ ~Hazardous(p) /\ cells[p].surrounding_mines_count > 0

\* C9: when no unrevealed non-hazard cell is without surrounding mines, a
\* hint call returns None, also while unrevealed non-hazard cells remain.
C9_NoZeroCellNoHint ==
    [][(RequestHint /\ ZeroCells = {})
          => (/\ outcome'.kind = "no_hint"
              /\ outcome'.value = None
              /\ hint_log' = hint_log
              /\ hinted_cells' = hinted_cells)]_vars

\* hint just returned None although unrevealed non-hazard cells, all next
\* to a mine, remain.
C9_Witness ==
    /\ pc = "menu"
    /\ outcome.kind = "no_hint"
    /\ ZeroCells = {}
    /\ \E p \in DOMAIN cells : ~Revealed(p) /\ ~Hazardous(p)

\* C10: in a session in progress, whenever some cell is unhinted,
\* unrevealed, non-hazardous and without surrounding mines, the hint call
\* returns a coordinate.
C10_ZeroCellGetsHint ==
    (pc = "menu" /\ ZeroCells \ hinted_cells # {})
        => hint(cells, hinted_cells, width, height) # None

\* A hint was returned that is not the seed of the scan, on a grid with
\* revealed cells and an earlier hint.
C10_Witness ==
    /\ pc = "menu"
    /\ outcome.kind = "hint"
    /\ \E p \in DOMAIN cells : Revealed(p)
    /\ LET prior == hinted_cells \ {outcome.value}
           seeds == {p \in DOMAIN cells :
                        p \notin prior /\ ~Revealed(p) /\ ~Hazardous(p)}
       IN  /\ prior # {}
           /\ RowMajor(seeds)[1] # outcome.value

\* C11: a successful reveal reveals the addressed cell and no other (no
\* neighbour is opened, also around a cell without surrounding mines), and
\* leaves the hazard layout, the adjacency counts and the hinted set.
C11_RevealOpensOneCell ==
    [][\A input \in CoordinateInputs :
          (EnterRow(input) /\ AcceptedGuess(input)) =>
              /\ DOMAIN cells' = DOMAIN cells
              /\ RevealedIn(cells', GuessOf(input))
              /\ \A p \in DOMAIN cells :
                    /\ p # GuessOf(input) => cells'[p] = cells[p]
                    /\ HazardousIn(cells', p) = Hazardous(p)
                    /\ ~Hazardous(p) =>
                          CountIn(cells', p) = cells[p].surrounding_mines_count
              /\ hinted_cells' = hinted_cells]_vars

\* A cell without surrounding mines was just opened and a neighbour of it
\* is still unrevealed.
C11_Witness ==
    /\ outcome.kind = "opened"
    /\ cells[outcome.value].surrounding_mines_count = 0
    /\ \E p \in DOMAIN cells :
          /\ p # outcome.value
          /\ p[1] - outcome.value[1] \in {-1, 0, 1}
          /\ p[2] - outcome.value[2] \in {-1, 0, 1}
          /\ ~Revealed(p)
          /\ ~Hazardous(p)

\* C12: a hint call leaves the cells (revealed flags, hazard layout,
\* adjacency counts) and the session state; one that returns a coordinate
\* adds exactly that coordinate to the hinted set, one that returns None
\* leaves the hinted set.
C12_HintChangesOnlyHinted ==
    [][RequestHint =>
          /\ cells' = cells
          /\ SessionState' = SessionState
          /\ <<width', height', difficulty', mine_count'>>
                = <<width, height, difficulty, mine_count>>
          /\ outcome'.kind \in {"hint", "no_hint"}
          /\ outcome'.kind = "hint" =>
                /\ outcome'.value \in DOMAIN cells
                /\ hinted_cells' = hinted_cells \cup {outcome'.value}
                /\ Cardinality(hinted_cells') = Cardinality(hinted_cells) + 1
          /\ outcome'.kind = "no_hint" =>
                /\ outcome'.value = None
                /\ hinted_cells' = hinted_cells]_vars

\* Both kinds of hint call have happened: the last one returned None after
\* earlier ones had returned coordinates, with cells revealed meanwhile.
C12_Witness ==
    /\ pc = "menu"
    /\ outcome.kind = "no_hint"
    /\ hinted_cells # {}
    /\ \E p \in DOMAIN cells : Revealed(p)

\* C13: the session is Won exactly when no cell is both unrevealed and
\* non-hazardous and no hazardous cell has been revealed; while it is in
\* progress an unrevealed non-hazard cell exists.
C13_WonIffAllSafeRevealed ==
    HasGrid =>
        /\ SessionState = "Won" <=>
              /\ \A p \in DOMAIN cells : ~Hazardous(p) => Revealed(p)
              /\ \A p \in DOMAIN cells : Hazardous(p) => ~Revealed(p)
        /\ SessionState = "InProgress" =>
              \E p \in DOMAIN cells : ~Revealed(p) /\ ~Hazardous(p)

\* A session in progress with one unrevealed non-hazard cell left, after
\* reveals and a hint.
C13_Witness ==
    /\ pc = "menu"
    /\ hint_log # <<>>
    /\ Cardinality({p \in DOMAIN cells : ~Revealed(p) /\ ~Hazardous(p)}) = 1
    /\ \E p \in DOMAIN cells : Revealed(p)

\* C14: on the 2x2 grid of difficulty 1 there is one hazard, and a session
\* that has not revealed it is Won exactly when 3 cells have been revealed:
\* it is in progress with fewer than 3 reveals and never with 3 or more.
C14_TwoByTwoWonAfterThree ==
    (HasGrid /\ width = 2 /\ height = 2 /\ difficulty = 1) =>
        /\ Cardinality(HazardCells) = 1
        /\ (HazardCells \cap RevealedCells = {}) =>
              /\ Cardinality(RevealedCells) <= 3
              /\ SessionState = "Won" <=> Cardinality(RevealedCells) = 3
              /\ SessionState = "InProgress" <=> Cardinality(RevealedCells) < 3

\* The 2x2 session of difficulty 1 won with its three safe cells revealed.
C14_Witness ==
    /\ width = 2
    /\ height = 2
    /\ difficulty = 1
    /\ pc = "won"
    /\ Cardinality(RevealedCells) = 3

C16_RevealedMonotone ==
    /\ [](pc = "constructed" => \A p \in DOMAIN cells : ~Revealed(p))
    /\ [][\A p \in DOMAIN cells :
             /\ Revealed(p) => (p \in DOMAIN cells' /\ RevealedIn(cells', p))
             /\ (~Revealed(p) /\ p \in DOMAIN cells' /\ RevealedIn(cells', p)) =>
                   \E input \in CoordinateInputs :
                      /\ EnterRow(input)
                      /\ AcceptedGuess(input)
                      /\ GuessOf(input) = p]_vars

\* Two cells were revealed one after the other, hints were given in
\* between, and a third cell is still unrevealed.
C16_Witness ==
    /\ outcome.kind = "opened"
    /\ hinted_cells # {}
    /\ \E p \in DOMAIN cells : p # outcome.value /\ Revealed(p)
    /\ \E p \in DOMAIN cells : ~Revealed(p) /\ ~Hazardous(p)

\* The hazardous cells that are revealed.
RevealedHazards == {p \in DOMAIN cells : Hazardous(p) /\ Revealed(p)}

\* C17: while the session is InProgress or Won no hazardous cell is
\* revealed, and never more than one is; a hazardous cell becomes revealed
\* only in the accepted reveal addressed to it, which moves the session from
\* InProgress to Lost; and the set of hazardous coordinates is the same
\* before and after every step taken on a constructed board.
C17_HazardExposedOnlyByLosing ==
    /\ [](SessionState \in {"InProgress", "Won"} => RevealedHazards = {})
    /\ [](Cardinality(RevealedHazards) <= 1)
    /\ [][HasGrid =>
             /\ HazardCells' = HazardCells
             /\ \A p \in HazardCells :
                   (~Revealed(p) /\ RevealedIn(cells', p)) =>
                      /\ SessionState = "InProgress"
                      /\ SessionState' = "Lost"
                      /\ \E input \in CoordinateInputs :
                            /\ EnterRow(input)
                            /\ AcceptedGuess(input)
                            /\ GuessOf(input) = p]_vars

\* The session was lost on a board with several hazards after a safe cell
\* had been revealed: one hazard is exposed, another is not.
C17_Witness ==
    /\ SessionState = "Lost"
    /\ Cardinality(RevealedHazards) = 1
    /\ \E p \in HazardCells : ~Revealed(p)
    /\ \E p \in DOMAIN cells : ~Hazardous(p) /\ Revealed(p)

\* The search of _recursive_backtrack_search on the current state, started
\* at p with a fresh visited set.
SearchFrom(p) ==
    recursive_backtrack_search(cells, hinted_cells, width, height, p, {})

\* The cells Grid.hint starts a search from, and the first in row-major order.
Seeds == {p \in DOMAIN cells : IsSeed(p)}

FirstSeed == RowMajor(Seeds)[1]

\* C18: at every prompt, a search that fails, from whichever cell it is
\* started, has visited every cell of the grid; so if the search from the
\* first row-major seed fails, the search from every seed fails, and the
\* value of hint is None without a seed and otherwise the result of the
\* search from the first seed alone.
C18_FirstSeedDecidesHint ==
    pc = "menu" =>
        /\ \A p \in DOMAIN cells :
              SearchFrom(p).result = None => SearchFrom(p).visited = DOMAIN cells
        /\ Seeds # {} =>
              /\ SearchFrom(FirstSeed).result = None =>
                    \A p \in Seeds : SearchFrom(p).result = None
              /\ hint(cells, hinted_cells, width, height)
                    = SearchFrom(FirstSeed).result
        /\ Seeds = {} => hint(cells, hinted_cells, width, height) = None

\* A hint call has just failed on a board with several seeds, a revealed
\* cell and a hazard: the failing search walked through all of them.
C18_Witness ==
    /\ pc = "menu"
    /\ outcome.kind = "no_hint"
    /\ Cardinality(Seeds) >= 2
    /\ \E p \in DOMAIN cells : Revealed(p)
    /\ SearchFrom(FirstSeed).visited = DOMAIN cells

\* The non-hazard cells without surrounding mines, revealed or not.
SafeZeroCells == {p \in DOMAIN cells : ~Hazardous(p) /\ CountIn(cells, p) = 0}

\* C19: the hinted set holds only non-hazard cells without surrounding
\* mines, and the session has given at most as many hints as the board has
\* such cells; no step removes a coordinate from the hinted set, only a
\* hint call adds one, and it adds at most one; a hint call that returns
\* None leaves a state where hint is None, and from a state where hint is
\* None every step that keeps the session in progress leads to a state
\* where hint is None again.
C19_HintedOnlyGrowsByZeroCells ==
    /\ [](hinted_cells \subseteq SafeZeroCells)
    /\ [](Len(hint_log) <= Cardinality(SafeZeroCells))
    /\ [][
           /\ hinted_cells \subseteq hinted_cells'
           /\ hinted_cells' # hinted_cells =>
                 /\ RequestHint
                 /\ Cardinality(hinted_cells' \ hinted_cells) = 1
           /\ (RequestHint /\ outcome'.kind = "no_hint") =>
                 hint(cells', hinted_cells', width', height') = None
           /\ (/\ SessionState = "InProgress"
               /\ SessionState' = "InProgress"
               /\ hint(cells, hinted_cells, width, height) = None) =>
                 hint(cells', hinted_cells', width', height') = None
          ]_vars

\* Every non-hazard cell without surrounding mines has been hinted, there
\* are several of them, a further hint call returned None, and a cell was
\* revealed after that.
C19_Witness ==
    /\ outcome.kind = "opened"
    /\ SessionState = "InProgress"
    /\ Len(hint_log) >= 2
    /\ hinted_cells = SafeZeroCells
    /\ hint(cells, hinted_cells, width, height) = None

====
